---- MODULE Spec2Model ----
(***************************************************************************)
(* Model of the room / session / timer engine of                           *)
(* src/server/src/GameServer/ServerRoom.ts: the base ServerRoom and its    *)
(* chess specialisation ChessServerRoom.  One room, a host and a few other *)
(* users; the transport (connect, disconnect, makeMove, giveUp), the timer *)
(* callbacks and the completion of the persistence call are the events.    *)
(* The rules oracle (chess.js) is an input: it says whether a move is      *)
(* legal and which terminal condition, if any, the move produces; the      *)
(* position itself is not modelled, only whose turn it is and the number   *)
(* of moves made.                                                          *)
(*                                                                         *)
(* A handler runs to completion in one step.  The one suspension point of  *)
(* the code that is followed by more code is `await super.handle-          *)
(* DisconnectTimeout` in ChessServerRoom.handleDisconnectTimeout: the step *)
(* HandleDisconnectTimeout ends where PlayedGame.create is called, the     *)
(* steps SaveResolved / SaveRejected are its completion.                   *)
(*                                                                         *)
(* Time is counted in clock units by the timers themselves: Tick lets one  *)
(* unit pass on every timer that is going, a timer whose remaining time is *)
(* zero is due and its callback is a step of its own.  PausableTimer is    *)
(* modelled from its contract (start, stop, pause, addTime, isGoing,       *)
(* expiry fires once).                                                     *)
(***************************************************************************)
EXTENDS Integers, FiniteSets, Sequences, TLC

\* ---------------------------------------------------------------- bounds
\* users that may connect to the room; user 1 is the host
MaxUser == 3
\* latest join instant a session may carry (milliseconds after the creation)
MaxJoinTime == 1
\* accepted moves per game
MaxMoves == 2

\* ------------------------------------------------------ the inputs explored
\* gameRules.initialTime and gameRules.timerIncrement of a room with timers, in
\* clock units
InitialTimes == {1}
TimerIncrements == {1}

\* --------------------------------------------------- configured durations
InactivityTimeout == 2
DisconnectTimeout == 2

Users == 1..MaxUser
hostID == 1

\* GameStatus, Color, GameResolution (DataModel)
NotStarted == "NotStarted"
InProgress == "InProgress"
Finished == "Finished"
White == "w"
Black == "b"
NoColor == "none"
NoResolution == "none"
PlayerQuit == "PlayerQuit"
GiveUp == "GiveUp"
OutOfTime == "OutOfTime"
Checkmate == "Checkmate"
Stalemate == "Stalemate"
Draw == "Draw"
NoError == "none"
\* undefined user id (winnerID, whitePlayerID, blackPlayerID before they are set)
NoUser == 0

VARIABLES
    gameRules,        \* [timer, initialTime, timerIncrement, hostPreferredColor]
    isFake,           \* ServerRoom.isFake
    sessions,         \* user id -> MemberSession (present = FALSE: no session)
    status,           \* _gameState.status
    resolution,       \* _gameState.resolution
    winnerID,         \* _gameState.winnerID
    whitePlayerID,
    blackPlayerID,
    whiteTimer,
    blackTimer,
    inactivityTimer,
    chess,            \* rules oracle: [turn, moves, over]
    subscribed,       \* users whose live socket has the makeMove / giveUp handlers
    awaitingSave,     \* handleDisconnectTimeout calls suspended in `await saveGame()`
    saveCount,        \* calls of PlayedGame.create
    graceExpired,     \* the users handleDisconnectTimeout was called for
    idleTime,         \* clock units a NotStarted room has been without a connected
                      \* member since its creation or the last disconnect
    out,              \* events emitted and broadcast by the last handler
    err               \* the error thrown by the last handler, NoError if none

vars == <<gameRules, isFake, sessions, status, resolution, winnerID, whitePlayerID,
          blackPlayerID, whiteTimer, blackTimer, inactivityTimer, chess, subscribed,
          awaitingSave, saveCount, graceExpired, idleTime, out, err>>

\* ------------------------------------------------------------ PausableTimer
\* an absent timer (undefined field)
NoTimer == [exists |-> FALSE, timeLeft |-> 0, isGoing |-> FALSE]

\* new PausableTimer(callback, initial)
NewTimer(initial) == [exists |-> TRUE, timeLeft |-> initial, isGoing |-> FALSE]

\* start(): resumes from the remaining time; no-op while running
TimerStart(t) ==
    IF (~t.exists) \/ t.isGoing THEN t ELSE [t EXCEPT !.isGoing = TRUE]

\* start(duration): (re)initialises the remaining time; no-op while running
TimerStartWith(t, d) ==
    IF (~t.exists) \/ t.isGoing THEN t ELSE [t EXCEPT !.timeLeft = d, !.isGoing = TRUE]

\* stop(): cancels the countdown, no expiry callback fires afterwards; a
\* cancelled countdown has no remaining time
TimerStop(t) ==
    IF t.exists THEN [t EXCEPT !.isGoing = FALSE, !.timeLeft = 0] ELSE t

\* pause(): freezes the remaining time; safe when not running
TimerPause(t) == IF t.exists THEN [t EXCEPT !.isGoing = FALSE] ELSE t

\* addTime(delta)
TimerAddTime(t, d) == IF t.exists THEN [t EXCEPT !.timeLeft = @ + d] ELSE t

\* one clock unit passes
TimerElapse(t) == IF t.isGoing THEN [t EXCEPT !.timeLeft = @ - 1] ELSE t

\* the remaining time reached zero: the callback is due
TimerDue(t) == t.exists /\ t.isGoing /\ t.timeLeft = 0

\* expiry: the callback fires once, the timer is inert afterwards
TimerExpire(t) == [t EXCEPT !.isGoing = FALSE]

\* ------------------------------------------------------------ ServerRoom
NoSession ==
    [present |-> FALSE, connected |-> FALSE, socket |-> FALSE, isPlayer |-> FALSE,
     color |-> NoColor, joined |-> 0, disconnectTimer |-> NoTimer]

swapColor(color) == IF color = White THEN Black ELSE White

connectedSessions(s) == {u \in Users : s[u].present /\ s[u].connected}

numberOfConnectedMembers(s) == Cardinality(connectedSessions(s))

isUserPresent(s, u) == s[u].present

\* isUserConnected with the connected flag negated
isUserConnected_Negated(s, u) == s[u].present /\ ~s[u].connected

isUserConnected(s, u) == s[u].present /\ s[u].connected

\* stopDisconnectTimers that stops nothing
stopDisconnectTimers_None(s) == s

\* for (const session of Object.values(this.sessions)) session.disconnectTimer?.stop()
stopDisconnectTimers(s) ==
    [u \in Users |-> [s[u] EXCEPT !.disconnectTimer = TimerStop(@)]]

\* checkInactivityTimer without the test of the status
checkInactivityTimer_AnyStatus(s, st, it) ==
    IF numberOfConnectedMembers(s) = 0
    THEN TimerStartWith(it, InactivityTimeout)
    ELSE it

\* checkInactivity: the inactivity timer afterwards
checkInactivityTimer(s, st, it) ==
    IF numberOfConnectedMembers(s) = 0 /\ st = NotStarted
    THEN TimerStartWith(it, InactivityTimeout)
    ELSE it

\* checkInactivity: the events it emits
checkInactivityOut(s, st) ==
    IF numberOfConnectedMembers(s) = 0 /\ st = Finished THEN {"destroy"} ELSE {}

\* the room after `new ChessServerRoom(host, gameRules, id)`; fake says whether id
\* is the configured fake room id
InitRoom(fake) ==
    /\ \E t \in BOOLEAN, c \in {White, Black} :
         \E inc \in (IF t THEN TimerIncrements ELSE {0}),
            it \in (IF t THEN InitialTimes ELSE {0}) :
           /\ gameRules = [timer |-> t, initialTime |-> it, timerIncrement |-> inc,
                           hostPreferredColor |-> c]
           /\ sessions = [u \in Users |->
                            IF u = hostID
                            THEN [NoSession EXCEPT !.present = TRUE, !.isPlayer = TRUE,
                                                   !.color = c]
                            ELSE NoSession]
           /\ whitePlayerID = IF c = White THEN hostID ELSE NoUser
           /\ blackPlayerID = IF c = White THEN NoUser ELSE hostID
    /\ isFake = fake
    /\ status = NotStarted
    /\ resolution = NoResolution
    /\ winnerID = NoUser
    /\ whiteTimer = NoTimer
    /\ blackTimer = NoTimer
    /\ inactivityTimer = TimerStartWith(NewTimer(0), InactivityTimeout)
    /\ chess = [turn |-> White, moves |-> 0, over |-> "none"]
    /\ subscribed = {}
    /\ awaitingSave = 0
    /\ saveCount = 0
    /\ graceExpired = {}
    /\ idleTime = 0
    /\ out = {}
    /\ err = NoError

Init == InitRoom(FALSE)

\* ------------------------------------------------------- acceptConnection
\* baseAcceptSessions without the stop of the pending disconnect timer
baseAcceptSessions_KeepTimer(s, u, t) ==
    IF isUserPresent(s, u)
    THEN [s EXCEPT ![u].socket = TRUE, ![u].connected = TRUE]
    ELSE [s EXCEPT ![u] = [NoSession EXCEPT !.present = TRUE,
                                            !.connected = TRUE,
                                            !.socket = TRUE,
                                            !.joined = t]]

\* ServerRoom.acceptConnection: the session map afterwards
baseAcceptSessions(s, u, t) ==
    LET s1 == IF isUserPresent(s, u)
              THEN [s EXCEPT ![u].socket = TRUE, ![u].connected = TRUE]
              ELSE [s EXCEPT ![u] = [NoSession EXCEPT !.present = TRUE,
                                                      !.connected = TRUE,
                                                      !.socket = TRUE,
                                                      !.joined = t]]
    IN  IF s1[u].disconnectTimer.exists
        THEN [s1 EXCEPT ![u].disconnectTimer = NoTimer]
        ELSE s1

\* baseAcceptInactivity without the stop of the inactivity timer
baseAcceptInactivity_NoStop(it) == it

\* ServerRoom.acceptConnection: the inactivity timer afterwards
baseAcceptInactivity(it) == IF it.isGoing THEN TimerStop(it) ELSE it

\* canStartGame with the status tested against InProgress instead of NotStarted
canStartGame_NotInProgress(s, st) ==
    /\ st # InProgress
    /\ numberOfConnectedMembers(s) >= 2
    /\ s[hostID].connected

\* canStartGame without the test that the host is connected
canStartGame_NoHost(s, st) ==
    /\ st = NotStarted
    /\ numberOfConnectedMembers(s) >= 2

\* ChessServerRoom.acceptConnection: the condition under which the game starts
canStartGame(s, st) ==
    /\ st = NotStarted
    /\ numberOfConnectedMembers(s) >= 2
    /\ s[hostID].connected

\* connectedSessions().filter(!isPlayer), in the order of Object.values (ascending id)
nonPlayerSessions(s) ==
    SelectSeq([i \in 1..MaxUser |-> i],
              LAMBDA u : s[u].present /\ s[u].connected /\ ~s[u].isPlayer)

\* one step of the stable sort with comparator b.joined - a.joined
RECURSIVE insertByJoined(_, _, _)
insertByJoined(seq, v, s) ==
    IF seq = <<>> THEN <<v>>
    ELSE IF s[Head(seq)].joined >= s[v].joined
         THEN <<Head(seq)>> \o insertByJoined(Tail(seq), v, s)
         ELSE <<v>> \o seq

\* nonPlayerSessions.sort((a, b) => b.joined - a.joined): latest join first
RECURSIVE sortByJoined(_, _)
sortByJoined(seq, s) ==
    IF seq = <<>> THEN <<>>
    ELSE insertByJoined(sortByJoined(SubSeq(seq, 1, Len(seq) - 1), s), seq[Len(seq)], s)

\* selectOpponent with shift() in place of pop()
selectOpponent_Shift(s) ==
    LET sorted == sortByJoined(nonPlayerSessions(s), s)
    IN  sorted[1]

\* selectOpponent: nonPlayerSessions.pop() after the sort
selectOpponent(s) ==
    LET sorted == sortByJoined(nonPlayerSessions(s), s)
    IN  sorted[Len(sorted)]

\* selectOpponent: the selected session becomes a player of the other colour
promoteOpponent(s, o) ==
    [s EXCEPT ![o].isPlayer = TRUE, ![o].color = swapColor(s[hostID].color)]

\* startWhiteTimer without whiteTimer.start()
startWhiteTimer_NoStart(rules) ==
    IF rules.timer THEN NewTimer(rules.initialTime) ELSE NoTimer

\* setUpGameBeforeStart: the clocks
startWhiteTimer(rules) ==
    IF rules.timer THEN TimerStart(NewTimer(rules.initialTime)) ELSE NoTimer

startBlackTimer(rules) ==
    IF rules.timer THEN NewTimer(rules.initialTime) ELSE NoTimer

\* the join instant of the session that joined last (the host's session carries
\* the creation instant, 0)
latestJoin(s) ==
    CHOOSE t \in 0..MaxJoinTime :
        /\ \E u \in Users : s[u].present /\ s[u].joined = t
        /\ \A u \in Users : s[u].present => s[u].joined <= t

\* acceptConnection(socket, user); t is what DateTime.now() returns
AcceptConnection(u, t) ==
    IF isUserConnected(sessions, u)
    THEN /\ err' = "AlreadyConnectedError"
         /\ out' = {}
         /\ UNCHANGED <<gameRules, isFake, sessions, status, resolution, winnerID,
                        whitePlayerID, blackPlayerID, whiteTimer, blackTimer,
                        inactivityTimer, chess, subscribed, awaitingSave, saveCount,
                        graceExpired, idleTime>>
    ELSE LET s1 == baseAcceptSessions(sessions, u, t)
             baseOut == {"init", IF isUserPresent(sessions, u) THEN "memberUpdate"
                                                               ELSE "memberJoin"}
         IN  /\ inactivityTimer' = baseAcceptInactivity(inactivityTimer)
             /\ idleTime' = 0
             /\ IF canStartGame(s1, status) /\ nonPlayerSessions(s1) = <<>>
                THEN \* selectOpponent: pop() of an empty array, TypeError
                     /\ sessions' = s1
                     /\ out' = baseOut
                     /\ err' = "TypeError"
                     /\ UNCHANGED <<whitePlayerID, blackPlayerID, status, whiteTimer,
                                    blackTimer, subscribed>>
                ELSE IF canStartGame(s1, status)
                THEN LET o == selectOpponent(s1)
                         s2 == promoteOpponent(s1, o)
                     IN  /\ sessions' = s2
                         /\ whitePlayerID' = IF s2[o].color = White THEN o ELSE whitePlayerID
                         /\ blackPlayerID' = IF s2[o].color = White THEN blackPlayerID ELSE o
                         /\ subscribed' = subscribed \cup {whitePlayerID', blackPlayerID'}
                         /\ status' = InProgress
                         /\ whiteTimer' = startWhiteTimer(gameRules)
                         /\ blackTimer' = startBlackTimer(gameRules)
                         /\ out' = baseOut \cup {"memberUpdate", "gameStart",
                                                 "gameStatusChange", "connectedUsersChange"}
                         /\ err' = NoError
                ELSE /\ sessions' = s1
                     /\ subscribed' = IF status = InProgress
                                         /\ (u = whitePlayerID \/ u = blackPlayerID)
                                      THEN subscribed \cup {u}
                                      ELSE subscribed
                     /\ out' = baseOut \cup {"connectedUsersChange"}
                     /\ err' = NoError
                     /\ UNCHANGED <<whitePlayerID, blackPlayerID, status, whiteTimer,
                                    blackTimer>>
             /\ UNCHANGED <<gameRules, isFake, resolution, winnerID, chess, awaitingSave,
                            saveCount, graceExpired>>

\* ------------------------------------------------------- handleDisconnect
\* disconnectSessions with the session of a member that is no player kept
disconnectSessions_Keep(s, u, st) ==
    [s EXCEPT ![u].connected = FALSE,
              ![u].socket = FALSE,
              ![u].disconnectTimer =
                  IF s[u].isPlayer /\ st = InProgress
                  THEN TimerStartWith(NewTimer(0), DisconnectTimeout)
                  ELSE @]

\* handleDisconnect: the session map afterwards
disconnectSessions(s, u, st) ==
    IF s[u].isPlayer
    THEN [s EXCEPT ![u].connected = FALSE,
                   ![u].socket = FALSE,
                   ![u].disconnectTimer =
                       IF st = InProgress
                       THEN TimerStartWith(NewTimer(0), DisconnectTimeout)
                       ELSE @]
    ELSE [s EXCEPT ![u] = NoSession]

\* the "disconnect" event of the socket bound by acceptConnection
HandleDisconnect(u) ==
    /\ sessions[u].present /\ sessions[u].socket
    /\ LET s1 == disconnectSessions(sessions, u, status)
       IN  /\ sessions' = s1
           /\ inactivityTimer' = checkInactivityTimer(s1, status, inactivityTimer)
           /\ out' = {IF sessions[u].isPlayer THEN "memberUpdate" ELSE "memberLeave",
                      "connectedUsersChange"} \cup checkInactivityOut(s1, status)
    /\ subscribed' = subscribed \ {u}
    /\ idleTime' = 0
    /\ err' = NoError
    /\ UNCHANGED <<gameRules, isFake, status, resolution, winnerID, whitePlayerID,
                   blackPlayerID, whiteTimer, blackTimer, chess, awaitingSave, saveCount,
                   graceExpired>>

\* ------------------------------------------------- handleInactivityTimeout
HandleInactivityTimeout ==
    /\ TimerDue(inactivityTimer)
    /\ inactivityTimer' = TimerExpire(inactivityTimer)
    /\ out' = {"destroy"}
    /\ err' = NoError
    /\ UNCHANGED <<gameRules, isFake, sessions, status, resolution, winnerID,
                   whitePlayerID, blackPlayerID, whiteTimer, blackTimer, chess,
                   subscribed, awaitingSave, saveCount, graceExpired,
                   idleTime>>

\* ------------------------------------------------------------- saveGame
\* ChessServerRoom.saveGame up to its suspension in PlayedGame.create: the number
\* of calls of PlayedGame.create afterwards.  ServerRoom.saveGame returns early
\* for a fake room, and ChessServerRoom.saveGame goes on after `await super.saveGame()`.
saveGameCalls(n, fake) == n + 1

\* ------------------------------------------------- handleDisconnectTimeout
\* ChessServerRoom.handleDisconnectTimeout: the winner
quitWinner(u, wp, bp) == IF u = wp THEN bp ELSE wp

\* the expiry callback of the disconnect timer of user u; the handler runs up to
\* `await this.saveGame()` and is resumed by SaveResolved
HandleDisconnectTimeout(u) ==
    /\ sessions[u].present
    /\ TimerDue(sessions[u].disconnectTimer)
    /\ resolution' = PlayerQuit
    /\ winnerID' = quitWinner(u, whitePlayerID, blackPlayerID)
    /\ status' = Finished
    /\ sessions' = stopDisconnectTimers(
                       [sessions EXCEPT ![u].disconnectTimer = TimerExpire(@)])
    /\ out' = {"gameStatusChange"}
    /\ saveCount' = saveGameCalls(saveCount, isFake)
    /\ awaitingSave' = awaitingSave + 1
    /\ graceExpired' = graceExpired \cup {u}
    /\ err' = NoError
    /\ UNCHANGED <<gameRules, isFake, whitePlayerID, blackPlayerID, whiteTimer,
                   blackTimer, inactivityTimer, chess, subscribed, idleTime>>

\* PlayedGame.create resolved: handleDisconnectTimeout goes on after its await
SaveResolved ==
    /\ awaitingSave > 0
    /\ awaitingSave' = awaitingSave - 1
    /\ whiteTimer' = TimerPause(whiteTimer)
    /\ blackTimer' = TimerPause(blackTimer)
    /\ out' = {}
    /\ err' = NoError
    /\ UNCHANGED <<gameRules, isFake, sessions, status, resolution, winnerID,
                   whitePlayerID, blackPlayerID, inactivityTimer, chess, subscribed,
                   saveCount, graceExpired,
                   idleTime>>

\* PlayedGame.create rejected: the rejection leaves handleDisconnectTimeout
\* through its awaits, the two pause() calls are not reached
SaveRejected ==
    /\ awaitingSave > 0
    /\ awaitingSave' = awaitingSave - 1
    /\ out' = {}
    /\ err' = NoError
    /\ UNCHANGED <<gameRules, isFake, sessions, status, resolution, winnerID,
                   whitePlayerID, blackPlayerID, whiteTimer, blackTimer,
                   inactivityTimer, chess, subscribed, saveCount, graceExpired,
                   idleTime>>

\* --------------------------------------------------------------- handleMove
\* moveWhiteTimer without the pause of the mover's clock
moveWhiteTimer_NoPause(w, turn, inc) ==
    IF turn = White THEN TimerStart(w) ELSE TimerAddTime(w, inc)

\* moveWhiteTimer without the addTime of the increment
moveWhiteTimer_NoIncrement(w, turn, inc) ==
    IF turn = White THEN TimerStart(w) ELSE TimerPause(w)

\* handleMove: the white clock after an accepted move; turn is chess.turn()
\* after the move
moveWhiteTimer(w, turn, inc) ==
    IF turn = White THEN TimerStart(w) ELSE TimerAddTime(TimerPause(w), inc)

\* moveBlackTimer with the increment given to the clock that starts
moveBlackTimer_IncOnStart(b, turn, inc) ==
    IF turn = White THEN TimerPause(b) ELSE TimerAddTime(TimerStart(b), inc)

\* handleMove: the black clock after an accepted move
moveBlackTimer(b, turn, inc) ==
    IF turn = White THEN TimerAddTime(TimerPause(b), inc) ELSE TimerStart(b)

\* isFinishCond: its result
isFinishCond(ch) == ch.over # "none"

\* isFinishCond: _gameState.resolution afterwards
finishResolution(ch, res) ==
    IF ch.over = "checkmate" THEN Checkmate
    ELSE IF ch.over = "stalemate" THEN Stalemate
    ELSE IF ch.over = "draw" THEN Draw
    ELSE res

\* finishWinner with the side to move after the move, the mated side, as winner
finishWinner_Mated(ch, w, wp, bp) ==
    IF ch.over = "checkmate" THEN (IF ch.turn = White THEN wp ELSE bp) ELSE w

\* finishWinner with the mover recorded as winner of every finished game
finishWinner_Always(ch, w, wp, bp) == IF ch.turn = White THEN bp ELSE wp

\* isFinishCond: _gameState.winnerID afterwards
finishWinner(ch, w, wp, bp) ==
    IF ch.over = "checkmate" THEN (IF ch.turn = White THEN bp ELSE wp) ELSE w

\* chess.move(move) on a legal move; over is what the oracle reports afterwards
chessMove(ch, over) ==
    [turn |-> swapColor(ch.turn), moves |-> ch.moves + 1, over |-> over]

\* the "makeMove" event of the socket of user u, subscribed with the colour of u
HandleMove(u, legal, over) ==
    /\ u \in subscribed
    /\ LET color == sessions[u].color
       IN  IF status # InProgress \/ chess.turn # color
           THEN /\ err' = "IllegalMoveError"
                /\ out' = {}
                /\ UNCHANGED <<sessions, status, resolution, winnerID, whiteTimer,
                               blackTimer, inactivityTimer, chess, saveCount>>
           ELSE IF ~legal
           THEN /\ err' = "Error"
                /\ out' = {}
                /\ UNCHANGED <<sessions, status, resolution, winnerID, whiteTimer,
                               blackTimer, inactivityTimer, chess, saveCount>>
           ELSE LET ch == chessMove(chess, over)
                    w1 == IF gameRules.timer
                          THEN moveWhiteTimer(whiteTimer, ch.turn, gameRules.timerIncrement)
                          ELSE whiteTimer
                    b1 == IF gameRules.timer
                          THEN moveBlackTimer(blackTimer, ch.turn, gameRules.timerIncrement)
                          ELSE blackTimer
                IN  /\ chess' = ch
                    /\ err' = NoError
                    /\ IF isFinishCond(ch)
                       THEN /\ whiteTimer' = TimerPause(w1)
                            /\ blackTimer' = TimerPause(b1)
                            /\ resolution' = finishResolution(ch, resolution)
                            /\ winnerID' = finishWinner(ch, winnerID, whitePlayerID,
                                                        blackPlayerID)
                            /\ status' = Finished
                            /\ sessions' = stopDisconnectTimers(sessions)
                            /\ inactivityTimer' =
                                   checkInactivityTimer(sessions', Finished, inactivityTimer)
                            /\ out' = {"move", "gameEnd", "gameStatusChange"}
                                          \cup checkInactivityOut(sessions', Finished)
                            /\ saveCount' = saveGameCalls(saveCount, isFake)
                       ELSE /\ whiteTimer' = w1
                            /\ blackTimer' = b1
                            /\ out' = {"move"}
                            /\ UNCHANGED <<sessions, status, resolution, winnerID,
                                           inactivityTimer, saveCount>>
    /\ UNCHANGED <<gameRules, isFake, whitePlayerID, blackPlayerID, subscribed,
                   awaitingSave, graceExpired,
                   idleTime>>

\* ------------------------------------------------------------- handleGiveUp
\* giveUpWinner with the resigning side as winner
giveUpWinner_Resigner(color, wp, bp) == IF color = White THEN wp ELSE bp

\* handleGiveUp: the winner
giveUpWinner(color, wp, bp) == IF color = White THEN bp ELSE wp

\* the "giveUp" event of the socket of user u, subscribed with the colour of u
HandleGiveUp(u) ==
    /\ u \in subscribed
    /\ IF status # InProgress
       THEN /\ out' = {}
            /\ UNCHANGED <<sessions, status, resolution, winnerID, whiteTimer,
                           blackTimer, inactivityTimer, saveCount>>
       ELSE /\ resolution' = GiveUp
            /\ winnerID' = giveUpWinner(sessions[u].color, whitePlayerID, blackPlayerID)
            /\ status' = Finished
            /\ whiteTimer' = TimerPause(whiteTimer)
            /\ blackTimer' = TimerPause(blackTimer)
            /\ sessions' = stopDisconnectTimers(sessions)
            /\ inactivityTimer' = checkInactivityTimer(sessions', Finished, inactivityTimer)
            /\ out' = {"gameEnd", "gameStatusChange"}
                          \cup checkInactivityOut(sessions', Finished)
            /\ saveCount' = saveGameCalls(saveCount, isFake)
    /\ err' = NoError
    /\ UNCHANGED <<gameRules, isFake, whitePlayerID, blackPlayerID, chess, subscribed,
                   awaitingSave, graceExpired,
                   idleTime>>

\* ------------------------------------------------------------ handleTimerOut
\* timerOutWinner with the side that ran out of time as winner
timerOutWinner_SameSide(side, wp, bp) == IF side = White THEN wp ELSE bp

\* handleTimerOut: the winner
timerOutWinner(side, wp, bp) == IF side = White THEN bp ELSE wp

\* the expiry callback of the clock of side
HandleTimerOut(side) ==
    /\ TimerDue(IF side = White THEN whiteTimer ELSE blackTimer)
    /\ whiteTimer' = TimerStop(IF side = White THEN TimerExpire(whiteTimer) ELSE whiteTimer)
    /\ blackTimer' = TimerStop(IF side = Black THEN TimerExpire(blackTimer) ELSE blackTimer)
    /\ sessions' = stopDisconnectTimers(sessions)
    /\ resolution' = OutOfTime
    /\ winnerID' = timerOutWinner(side, whitePlayerID, blackPlayerID)
    /\ status' = Finished
    /\ inactivityTimer' = checkInactivityTimer(sessions', Finished, inactivityTimer)
    /\ out' = {"gameEnd", "gameStatusChange"} \cup checkInactivityOut(sessions', Finished)
    /\ saveCount' = saveGameCalls(saveCount, isFake)
    /\ err' = NoError
    /\ UNCHANGED <<gameRules, isFake, whitePlayerID, blackPlayerID, chess, subscribed,
                   awaitingSave, graceExpired,
                   idleTime>>

\* ---------------------------------------------------------------- the clock
allTimers ==
    {whiteTimer, blackTimer, inactivityTimer}
        \cup {sessions[u].disconnectTimer : u \in Users}

\* one clock unit passes; a callback that is due runs before the clock goes on
Tick ==
    /\ \A t \in allTimers : ~TimerDue(t)
    /\ whiteTimer' = TimerElapse(whiteTimer)
    /\ blackTimer' = TimerElapse(blackTimer)
    /\ inactivityTimer' = TimerElapse(inactivityTimer)
    /\ sessions' = [u \in Users |->
                       [sessions[u] EXCEPT !.disconnectTimer = TimerElapse(@)]]
    /\ idleTime' = IF numberOfConnectedMembers(sessions) = 0 /\ status = NotStarted
                    THEN (IF idleTime < InactivityTimeout THEN idleTime + 1 ELSE idleTime)
                    ELSE 0
    /\ out' = {}
    /\ err' = NoError
    /\ UNCHANGED <<gameRules, isFake, status, resolution, winnerID, whitePlayerID,
                   blackPlayerID, chess, subscribed, awaitingSave, saveCount,
                   graceExpired>>

\* DateTime.now() at a connection, in milliseconds after the creation of the
\* room: the clock does not go back, so a session that is created joins in the
\* same millisecond as the latest session of the room or in a later one.  The
\* instant is not stored when the session exists already.
JoinInstants(u) ==
    IF isUserPresent(sessions, u)
    THEN {latestJoin(sessions)}
    ELSE latestJoin(sessions)..MaxJoinTime

\* what the rules oracle may report after a move
Overs == {"none", "checkmate", "stalemate", "draw"}

Next ==
    \/ \E u \in Users : \E t \in JoinInstants(u) : AcceptConnection(u, t)
    \/ \E u \in Users : HandleDisconnect(u)
    \/ HandleInactivityTimeout
    \/ \E u \in Users : HandleDisconnectTimeout(u)
    \/ SaveResolved
    \/ SaveRejected
    \/ \E u \in Users :
         \E legal \in (IF chess.moves < MaxMoves THEN BOOLEAN ELSE {FALSE}) :
            \E over \in (IF legal THEN Overs ELSE {"none"}) :
                HandleMove(u, legal, over)
    \/ \E u \in Users : HandleGiveUp(u)
    \/ \E side \in {White, Black} : HandleTimerOut(side)
    \/ Tick

Spec == Init /\ [][Next]_vars

\* the room created with the configured fake room id (gameServer.fakeRoom)
InitFake == InitRoom(TRUE)

SpecFake == InitFake /\ [][Next]_vars

\* ================================================================ properties
\* the player of the game that is not the host
opponentID(wp, bp) == IF wp = hostID THEN bp ELSE wp

\* ----------------------------------------------------------------------- C1
\* C1: the status only moves forward, NotStarted -> InProgress -> Finished: no
\* step takes it from Finished to another status, or from InProgress to NotStarted.
C1_StatusForward ==
    [][/\ (status = Finished => status' = Finished)
       /\ (status = InProgress => status' # NotStarted)]_vars

\* a connection accepted in a finished room while the host and another member
\* are connected
C1_Witness ==
    /\ status = Finished
    /\ "init" \in out /\ err = NoError
    /\ numberOfConnectedMembers(sessions) >= 2
    /\ sessions[hostID].connected
    /\ nonPlayerSessions(sessions) # <<>>

\* ----------------------------------------------------------------------- C2
\* C2: while the game is InProgress with timers enabled, at most one of the two
\* clocks is going.
C2_OneClockGoing ==
    (status = InProgress /\ gameRules.timer)
        => ~(whiteTimer.isGoing /\ blackTimer.isGoing)

\* a move was accepted and the clock of Black is the one going
C2_Witness ==
    /\ status = InProgress /\ gameRules.timer
    /\ "move" \in out
    /\ blackTimer.isGoing /\ ~whiteTimer.isGoing

\* ----------------------------------------------------------------------- C3
\* C3: a Finished game has a resolution; unless it is Stalemate or Draw the
\* winnerID is set and is whitePlayerID or blackPlayerID, a player; for Stalemate
\* and Draw no winnerID is set.
C3_FinishedHasResult ==
    status = Finished =>
        /\ resolution # NoResolution
        /\ resolution \notin {Stalemate, Draw} =>
               /\ winnerID # NoUser
               /\ winnerID \in {whitePlayerID, blackPlayerID}
               /\ sessions[winnerID].present /\ sessions[winnerID].isPlayer
        /\ resolution \in {Stalemate, Draw} => winnerID = NoUser

\* a finished game with a winner while a member that is no player is in the room
C3_Witness ==
    /\ status = Finished
    /\ winnerID # NoUser
    /\ \E v \in Users : sessions[v].present /\ ~sessions[v].isPlayer

\* ----------------------------------------------------------------------- C4
\* C4: the disconnect of a player (connected becomes false) while InProgress
\* starts the disconnect timer of that player and of nobody else; when the player
\* is accepted again (connected becomes true) while the timer is pending, the
\* timer is removed and cannot fire, the status stays InProgress and the session
\* keeps isPlayer and its colour.
C4_GraceTimer ==
    [][\A u \in Users :
        /\ (/\ sessions[u].connected /\ ~sessions'[u].connected
            /\ sessions[u].isPlayer
            /\ status = InProgress)
           => /\ sessions'[u].disconnectTimer.isGoing
              /\ sessions'[u].disconnectTimer.timeLeft = DisconnectTimeout
              /\ \A v \in Users \ {u} :
                     sessions'[v].disconnectTimer = sessions[v].disconnectTimer
        /\ (/\ sessions[u].present /\ ~sessions[u].connected
            /\ sessions'[u].connected
            /\ sessions[u].disconnectTimer.isGoing)
           => /\ sessions'[u].disconnectTimer = NoTimer
              /\ ~TimerDue(sessions'[u].disconnectTimer)
              /\ status = InProgress /\ status' = InProgress
              /\ sessions'[u].connected
              /\ sessions'[u].isPlayer
              /\ sessions'[u].color = sessions[u].color
              /\ sessions'[u].color # NoColor]_vars

\* a session was accepted again in a game in progress (memberUpdate, and not the
\* connection that started the game): a player, whose disconnect timer was pending
C4_Witness ==
    /\ status = InProgress
    /\ {"init", "memberUpdate"} \subseteq out /\ "gameStart" \notin out
    /\ err = NoError
    /\ \E u \in {whitePlayerID, blackPlayerID} :
           /\ sessions[u].connected /\ sessions[u].isPlayer
           /\ sessions[u].disconnectTimer = NoTimer
    /\ \A u \in Users : ~sessions[u].disconnectTimer.isGoing

\* ----------------------------------------------------------------------- C5
\* C5: the expiry of the disconnect timer of a player (handleDisconnectTimeout
\* runs for that player) makes the game Finished
\* with resolution PlayerQuit and the other player as winner, and leaves no
\* disconnect timer going; there is at most one such expiry in a room.
C5_GraceExpiry ==
    /\ [][\A u \in Users :
            (u \in graceExpired' /\ u \notin graceExpired)
            => /\ status' = Finished
               /\ resolution' = PlayerQuit
               /\ winnerID' \in {whitePlayerID, blackPlayerID} \ {u}
               /\ \A v \in Users : ~sessions'[v].disconnectTimer.isGoing]_vars
    /\ [](Cardinality(graceExpired) <= 1)

\* the timer of one player has just expired while the other player was away
\* too: the timer of the other player is stopped
C5_Witness ==
    /\ out = {"gameStatusChange"} /\ graceExpired # {}
    /\ status = Finished /\ resolution = PlayerQuit
    /\ \A v \in {whitePlayerID, blackPlayerID} :
           /\ sessions[v].isPlayer /\ ~sessions[v].connected
           /\ sessions[v].disconnectTimer.exists
           /\ ~sessions[v].disconnectTimer.isGoing

\* ----------------------------------------------------------------------- C6
\* C6: whenever the game becomes Finished while no member is connected, the
\* room emits destroy in that same step.
C6_DestroyOnFinishEmpty ==
    [][(status # Finished /\ status' = Finished
            /\ numberOfConnectedMembers(sessions') = 0)
        => "destroy" \in out']_vars

\* ----------------------------------------------------------------------- C7
\* C7: PlayedGame.create is called at most once per room.
C7_SavedAtMostOnce == saveCount <= 1

\* ----------------------------------------------------------------------- C8
\* C8: in a Finished game no disconnect timer is pending and neither clock is
\* going.
C8_FinishedNoTimers ==
    status = Finished =>
        /\ \A u \in Users : ~sessions[u].disconnectTimer.isGoing
        /\ ~whiteTimer.isGoing
        /\ ~blackTimer.isGoing

\* ----------------------------------------------------------------------- C9
\* the members that were candidates for selection in the step that started the game
startCandidates(s) == {v \in Users \ {hostID} : s[v].present /\ s[v].connected}

\* C9 as claimed: at game start the connected non-player that joined most
\* recently becomes the opponent.
C9_LatestSelected ==
    [][(status = NotStarted /\ status' = InProgress)
        => \A v \in startCandidates(sessions') :
               sessions'[v].joined
                   <= sessions'[opponentID(whitePlayerID', blackPlayerID')].joined]_vars

\* C9 amended: at game start a connected non-player with the earliest join
\* instant becomes the opponent, among several that joined in the same
\* millisecond the one with the highest user id; it is promoted to player with
\* the colour complementary to the host's, and no other member is promoted.
C9_EarliestSelected ==
    [][(status = NotStarted /\ status' = InProgress)
        => LET o == opponentID(whitePlayerID', blackPlayerID')
           IN  /\ o \in startCandidates(sessions')
               /\ ~sessions[o].isPlayer
               /\ \A v \in startCandidates(sessions') :
                      \/ sessions'[o].joined < sessions'[v].joined
                      \/ sessions'[o].joined = sessions'[v].joined /\ v <= o
               /\ sessions'[o].isPlayer
               /\ sessions'[o].color = swapColor(sessions[hostID].color)
               /\ sessions'[hostID].color = sessions[hostID].color
               /\ \A v \in startCandidates(sessions') \ {o} :
                      ~sessions'[v].isPlayer]_vars

\* the game has just started and a connected member that joined after the
\* opponent was left a non-player
C9_Witness ==
    /\ status = InProgress /\ "gameStart" \in out
    /\ \E v \in Users :
           /\ sessions[v].present /\ sessions[v].connected /\ ~sessions[v].isPlayer
           /\ sessions[v].joined > sessions[opponentID(whitePlayerID, blackPlayerID)].joined

\* ---------------------------------------------------------------------- C10
\* an accepted move that leaves the game in progress, timers and increment on
clockedMove(n) ==
    /\ gameRules.timer /\ gameRules.timerIncrement > 0
    /\ status = InProgress /\ status' = InProgress
    /\ chess.moves = n /\ chess'.moves = n + 1

\* C10 as claimed: the first move of White stops White's clock and starts
\* Black's without an increment on either clock; the following move of Black
\* adds the increment to White's clock and restarts it.
C10_IncrementAfterReply ==
    [][/\ clockedMove(0)
          => /\ ~whiteTimer'.isGoing /\ blackTimer'.isGoing
             /\ whiteTimer'.timeLeft = whiteTimer.timeLeft
             /\ blackTimer'.timeLeft = blackTimer.timeLeft
       /\ clockedMove(1)
          => /\ whiteTimer'.isGoing
             /\ whiteTimer'.timeLeft = whiteTimer.timeLeft + gameRules.timerIncrement]_vars

\* C10 amended: the first move of White stops White's clock, adds the increment
\* to it and starts Black's clock unchanged; the following move of Black stops
\* Black's clock, adds the increment to it and restarts White's clock unchanged.
C10_IncrementToMover ==
    [][/\ clockedMove(0)
          => /\ ~whiteTimer'.isGoing /\ blackTimer'.isGoing
             /\ whiteTimer'.timeLeft = whiteTimer.timeLeft + gameRules.timerIncrement
             /\ blackTimer'.timeLeft = blackTimer.timeLeft
       /\ clockedMove(1)
          => /\ whiteTimer'.isGoing /\ ~blackTimer'.isGoing
             /\ whiteTimer'.timeLeft = whiteTimer.timeLeft
             /\ blackTimer'.timeLeft = blackTimer.timeLeft + gameRules.timerIncrement]_vars

\* White and then Black have moved in a game with a non-zero increment
C10_Witness ==
    /\ gameRules.timer /\ gameRules.timerIncrement > 0
    /\ status = InProgress
    /\ chess.moves = 2
    /\ "move" \in out
    /\ whiteTimer.isGoing

\* ---------------------------------------------------------------------- C11
\* C11: every accepted move in a game with timers leaves the clock of the mover
\* paused with the increment added to it, adds nothing to the clock of the
\* opponent and starts the clock of the opponent; when the move ends the game,
\* the clock just started is paused again by checkGameEnd.
C11_MoveSwitchesClocks ==
    [][(gameRules.timer /\ chess'.moves = chess.moves + 1)
        => LET moverIsWhite == chess.turn = White
               mover == IF moverIsWhite THEN whiteTimer ELSE blackTimer
               mover1 == IF moverIsWhite THEN whiteTimer' ELSE blackTimer'
               other == IF moverIsWhite THEN blackTimer ELSE whiteTimer
               other1 == IF moverIsWhite THEN blackTimer' ELSE whiteTimer'
           IN  /\ ~mover1.isGoing
               /\ mover1.timeLeft = mover.timeLeft + gameRules.timerIncrement
               /\ other1.timeLeft = other.timeLeft
               /\ other1.isGoing <=> status' = InProgress]_vars

\* White has made the first move without delay: White's clock is paused with
\* the increment on top of the initial time, Black's clock is going
C11_Witness ==
    /\ gameRules.timer /\ gameRules.timerIncrement > 0
    /\ status = InProgress /\ "move" \in out
    /\ chess.moves = 1
    /\ ~whiteTimer.isGoing /\ blackTimer.isGoing
    /\ whiteTimer.timeLeft = gameRules.initialTime + gameRules.timerIncrement
    /\ blackTimer.timeLeft = gameRules.initialTime

\* ---------------------------------------------------------------------- C12
\* C12: a makeMove received while the status is not InProgress, from the side
\* that is not to move, or with a move the rules oracle rejects, is rejected with
\* IllegalMoveError and changes nothing: clocks, status, resolution, winner and
\* position stay as they are and nothing is broadcast.
C12_RejectedMove ==
    [][\A u \in Users : \A legal \in BOOLEAN, over \in Overs :
        (/\ HandleMove(u, legal, over)
         /\ (status # InProgress \/ chess.turn # sessions[u].color \/ ~legal))
        => /\ err' = "IllegalMoveError"
           /\ out' = {}
           /\ UNCHANGED <<whiteTimer, blackTimer, status, resolution, winnerID,
                          chess, sessions, inactivityTimer, saveCount>>]_vars

\* ---------------------------------------------------------------------- C13
\* C13: acceptConnection for a user that is connected fails with
\* AlreadyConnectedError and leaves the room as it was (sessions with their
\* connected flags, sockets and disconnect timers, the inactivity timer, the
\* game state, the clocks, the subscriptions) and emits nothing; a connection is
\* accepted only for a user that was not connected.
C13_AlreadyConnected ==
    [][/\ err' = "AlreadyConnectedError"
          => /\ \E u \in Users : sessions[u].present /\ sessions[u].connected
             /\ out' = {}
             /\ UNCHANGED <<sessions, inactivityTimer, status, resolution, winnerID,
                            whitePlayerID, blackPlayerID, whiteTimer, blackTimer,
                            chess, subscribed, saveCount>>
       /\ "init" \in out'
          => \E u \in Users :
                 /\ ~(sessions[u].present /\ sessions[u].connected)
                 /\ sessions'[u].present /\ sessions'[u].connected]_vars

\* a second connection of a connected user was refused during a game in which
\* the disconnect timer of a player is pending
C13_Witness ==
    /\ err = "AlreadyConnectedError"
    /\ status = InProgress
    /\ \E u, v \in Users :
           /\ u # v
           /\ sessions[u].present /\ sessions[u].connected
           /\ sessions[v].disconnectTimer.isGoing

\* ---------------------------------------------------------------------- C14
\* C14: when the clock of a side expires during a game InProgress, the game
\* becomes Finished with resolution OutOfTime and the player of the other colour
\* as winner, neither clock is going afterwards and no disconnect timer is
\* pending.
C14_ClockExpiry ==
    [][\A side \in {White, Black} :
        (status = InProgress /\ HandleTimerOut(side))
        => /\ status' = Finished
           /\ resolution' = OutOfTime
           /\ winnerID' # NoUser
           /\ sessions'[winnerID'].isPlayer
           /\ sessions'[winnerID'].color = swapColor(side)
           /\ ~whiteTimer'.isGoing /\ ~blackTimer'.isGoing
           /\ ~TimerDue(whiteTimer') /\ ~TimerDue(blackTimer')
           /\ \A u \in Users : ~sessions'[u].disconnectTimer.isGoing]_vars

\* Black's clock expired while a player was away within its grace period: the
\* game is lost on time and the disconnect timer of that player is stopped
C14_Witness ==
    /\ status = Finished /\ resolution = OutOfTime
    /\ "gameEnd" \in out
    /\ winnerID = whitePlayerID
    /\ chess.turn = Black
    /\ graceExpired = {}
    /\ \E u \in Users :
           /\ sessions[u].isPlayer /\ ~sessions[u].connected
           /\ sessions[u].disconnectTimer.exists
           /\ ~sessions[u].disconnectTimer.isGoing

\* ---------------------------------------------------------------------- C15
\* C15: a room that is NotStarted emits destroy only in the expiry of the
\* inactivity timer, with no member connected and after the room has been
\* without a connected member for the whole InactivityTimeout since its creation
\* or the last disconnect; every accepted connection leaves the inactivity timer
\* stopped.
C15_InactivityDestroy ==
    [][/\ ("destroy" \in out' /\ status' = NotStarted)
          => /\ TimerDue(inactivityTimer)
             /\ ~inactivityTimer'.isGoing
             /\ numberOfConnectedMembers(sessions) = 0
             /\ numberOfConnectedMembers(sessions') = 0
             /\ idleTime = InactivityTimeout
       /\ "init" \in out' => ~inactivityTimer'.isGoing]_vars

\* the inactivity timer has just expired in a room that never started its game:
\* destroy is emitted after a full InactivityTimeout without a connected member
C15_Witness ==
    /\ out = {"destroy"}
    /\ status = NotStarted
    /\ idleTime = InactivityTimeout
    /\ numberOfConnectedMembers(sessions) = 0
    /\ ~inactivityTimer.isGoing

\* ---------------------------------------------------------------------- C16
\* C16: the game goes from NotStarted to InProgress in exactly those accepted
\* connections after which the host and at least one other member are
\* connected: it starts in no other step and never while the host is
\* disconnected, and no NotStarted state has the host connected together with
\* another connected member.
C16_StartCondition ==
    /\ [][/\ (status = NotStarted /\ status' = InProgress)
             => /\ "init" \in out' /\ err' = NoError
                /\ sessions'[hostID].connected
                /\ numberOfConnectedMembers(sessions') >= 2
          /\ (/\ status = NotStarted /\ "init" \in out'
              /\ sessions'[hostID].connected
              /\ numberOfConnectedMembers(sessions') >= 2)
             => status' = InProgress]_vars
    /\ [](status = NotStarted
            => ~(sessions[hostID].connected /\ numberOfConnectedMembers(sessions) >= 2))

\* the game has just started with three members connected: two members were
\* waiting in the room and the game started when the host connected
C16_Witness ==
    /\ status = InProgress
    /\ "gameStart" \in out
    /\ sessions[hostID].connected
    /\ numberOfConnectedMembers(sessions) = 3

\* ---------------------------------------------------------------------- C17
\* C17: in a room that is fake (isFake), PlayedGame.create is never called,
\* whichever way the game finishes.
C17_FakeNeverSaved == isFake => saveCount = 0

\* ---------------------------------------------------------------------- C18
\* C18: when a connected member that is no player disconnects, its session is
\* gone after that step, whatever the status, and no disconnect timer is left
\* for it; a session that comes into being is connected, has no disconnect
\* timer and no colour and is no player, unless that same connection starts
\* the game and promotes it as the opponent.
C18_NonPlayerSession ==
    [][\A u \in Users :
        /\ (/\ sessions[u].present /\ sessions[u].connected
            /\ ~sessions[u].isPlayer
            /\ ~sessions'[u].connected)
           => /\ ~sessions'[u].present
              /\ sessions'[u] = NoSession
              /\ status' = status
        /\ (~sessions[u].present /\ sessions'[u].present)
           => /\ sessions'[u].connected
              /\ sessions'[u].disconnectTimer = NoTimer
              /\ sessions'[u].isPlayer
                    => /\ status = NotStarted /\ status' = InProgress
                       /\ u = opponentID(whitePlayerID', blackPlayerID')
              /\ ~sessions'[u].isPlayer => sessions'[u].color = NoColor]_vars

\* a member that is no player has just left a game in progress: its session is
\* gone and no disconnect timer was started
C18_Witness ==
    /\ "memberLeave" \in out
    /\ status = InProgress
    /\ \E u \in Users : ~sessions[u].present
    /\ \A u \in Users : ~sessions[u].disconnectTimer.exists

\* ---------------------------------------------------------------------- C19
\* C19: an accepted move after which the rules oracle reports checkmate makes
\* the game Finished with resolution Checkmate and the player that made the
\* move as winner; when the oracle reports stalemate or another draw the game
\* becomes Finished with resolution Stalemate or Draw and no winner.
C19_TerminalMove ==
    [][(chess'.moves = chess.moves + 1)
        => LET mover == IF chess.turn = White THEN whitePlayerID ELSE blackPlayerID
           IN  /\ chess'.over = "checkmate"
                  => /\ status' = Finished
                     /\ resolution' = Checkmate
                     /\ winnerID' = mover
                     /\ mover # NoUser
                     /\ sessions[mover].color = chess.turn
               /\ chess'.over = "stalemate"
                  => /\ status' = Finished
                     /\ resolution' = Stalemate
                     /\ winnerID' = NoUser
               /\ chess'.over = "draw"
                  => /\ status' = Finished
                     /\ resolution' = Draw
                     /\ winnerID' = NoUser]_vars

\* Black has just given mate with the second move of the game
C19_Witness ==
    /\ status = Finished /\ resolution = Checkmate
    /\ "move" \in out /\ "gameEnd" \in out
    /\ chess.moves = 2 /\ chess.turn = White
    /\ winnerID = blackPlayerID
    /\ sessions[winnerID].color = Black

\* ---------------------------------------------------------------------- C20
\* C20: a giveUp of a player received while the game is InProgress makes the
\* game Finished with resolution GiveUp and the other player as winner, leaves
\* both clocks paused with their remaining time and no disconnect timer
\* pending; a giveUp received in any other status changes nothing.
C20_Resignation ==
    [][\A u \in Users :
        HandleGiveUp(u)
        => /\ status = InProgress
              => /\ status' = Finished
                 /\ resolution' = GiveUp
                 /\ winnerID' \in {whitePlayerID, blackPlayerID} \ {u}
                 /\ sessions'[winnerID'].color = swapColor(sessions[u].color)
                 /\ ~whiteTimer'.isGoing /\ ~blackTimer'.isGoing
                 /\ whiteTimer'.timeLeft = whiteTimer.timeLeft
                 /\ blackTimer'.timeLeft = blackTimer.timeLeft
                 /\ \A v \in Users : ~sessions'[v].disconnectTimer.isGoing
           /\ status # InProgress
              => /\ out' = {}
                 /\ UNCHANGED <<status, resolution, winnerID, whiteTimer, blackTimer,
                                sessions, inactivityTimer, chess, saveCount,
                                subscribed>>]_vars

\* a player has resigned a game with clocks while the other player was away
\* within its grace period: the disconnect timer of that player is stopped
C20_Witness ==
    /\ status = Finished /\ resolution = GiveUp
    /\ "gameEnd" \in out
    /\ gameRules.timer
    /\ sessions[winnerID].isPlayer /\ ~sessions[winnerID].connected
    /\ sessions[winnerID].disconnectTimer.exists
    /\ ~sessions[winnerID].disconnectTimer.isGoing

\* ---------------------------------------------------------------------- C21
\* C21: once the status is Finished, the recorded resolution and winnerID never
\* change again, whatever step follows.
C21_ResultImmutable ==
    [][status = Finished
        => (resolution' = resolution /\ winnerID' = winnerID)]_vars

\* ---------------------------------------------------------------------- C22
\* C22: whenever the inactivity timer is going, no member is connected and the
\* status is NotStarted.
C22_InactivityTimerGoing ==
    inactivityTimer.isGoing
        => (numberOfConnectedMembers(sessions) = 0 /\ status = NotStarted)

\* the last connected member, one that is no player, has just left a room that
\* has not started its game: the inactivity timer was started again
C22_Witness ==
    /\ "memberLeave" \in out
    /\ status = NotStarted
    /\ numberOfConnectedMembers(sessions) = 0
    /\ inactivityTimer.isGoing
    /\ inactivityTimer.timeLeft = InactivityTimeout

\* ---------------------------------------------------------------------- C23
\* C23: in every state with status InProgress and timers enabled exactly one
\* clock is going, the clock of the colour whose turn the rules oracle reports.
C23_ClockOfSideToMove ==
    (status = InProgress /\ gameRules.timer)
        => /\ whiteTimer.exists /\ blackTimer.exists
           /\ whiteTimer.isGoing <=> chess.turn = White
           /\ blackTimer.isGoing <=> chess.turn = Black

\* White and Black have each moved in a game with clocks and time has passed
\* since: it is White's turn again and White's clock is the one going
C23_Witness ==
    /\ status = InProgress
    /\ gameRules.timer
    /\ out = {} /\ err = NoError
    /\ chess.moves = 2 /\ chess.turn = White
    /\ whiteTimer.isGoing /\ ~blackTimer.isGoing

====
